---- MODULE Spec2Model ----
(***************************************************************************)
(* The file-vault storage gateway (src/api.py): five HTTP handlers that    *)
(* forward to a Supabase storage bucket through one of two clients.        *)
(*                                                                         *)
(* The gateway keeps no state of its own.  The state of the model is the   *)
(* process configuration read at start-up, the bucket held by the storage  *)
(* service, and an observation of the last request: what was asked, what   *)
(* was answered, and which storage calls the handler issued.               *)
(*                                                                         *)
(* Text is modelled as a sequence of atomic pieces: an error message is a  *)
(* sequence of tokens and `x in msg` is the presence of the token, a URL   *)
(* is the sequence of the pieces an f-string concatenates.                 *)
(***************************************************************************)
EXTENDS Integers, Sequences, FiniteSets, TLC

VARIABLES
    serviceKey,   \* SUPABASE_SERVICE_KEY is set, i.e. admin_client is not None
    policy,       \* bucket policy: the operations the anon key is allowed
    store,        \* the bucket "files": object key -> bytes, or NoObj
    req,          \* the last request
    resp,         \* the answer to the last request
    calls,        \* the storage calls the last request issued, in order
    before        \* the bucket as it was when the last request arrived

vars == <<serviceKey, policy, store, req, resp, calls, before>>

----------------------------------------------------------------------------
(* Bounds of the model *)

NumFiles == 2
MaxMsgLen == 2
MaxDictKeys == 2

(* Program constants *)

EXPIRES_DEFAULT == 3600
BUCKET == "files"

----------------------------------------------------------------------------
(* Values *)

FileNames == <<"a.pdf", "blob.unknownext", "docs/r.txt", "img.png">>
Keys == {FileNames[i] : i \in 1..NumFiles}
\* The payloads: the gateway passes bytes on unread, two distinct ones tell
\* every case apart.
Contents == {<<"bytes", "one">>, <<"bytes", "two">>}
NoObj == <<"no object">>

\* Python's None, the empty string, and a field that a JSON body does not have.
NoneV == <<"None">>
EmptyStr == <<>>
Absent == <<"absent">>

Truthy(v) == v # NoneV /\ v # EmptyStr

\* a or b or c or d
Or4(a, b, c, d) ==
    IF Truthy(a) THEN a ELSE IF Truthy(b) THEN b ELSE IF Truthy(c) THEN c ELSE d

\* mimetypes.guess_type(name)[0]
GuessType(name) ==
    CASE name = "a.pdf" -> "application/pdf"
      [] name = "docs/r.txt" -> "text/plain"
      [] name = "img.png" -> "image/png"
      [] OTHER -> "None"

\* request.base_url of the incoming request, as the server sees it.
BaseUrls == {"http://testserver/"}

----------------------------------------------------------------------------
(* Error messages of the storage service *)

PermissionMarkers == {"row-level security", "Unauthorized", "403"}
DuplicateMarkers == {"Duplicate", "already exists", "409"}
OtherTokens == {"unauthorized"}
Tokens == PermissionMarkers \cup DuplicateMarkers \cup OtherTokens

SeqsUpTo(S, n) == UNION {[1..k -> S] : k \in 0..n}

Msgs == SeqsUpTo(Tokens, MaxMsgLen)

\* `marker in msg`, a case-sensitive substring test
Contains(msg, marker) == \E i \in 1..Len(msg) : msg[i] = marker

ContainsAny(msg, markers) == \E m \in markers : Contains(msg, m)

\* The service's wording of a policy rejection names it as such; its wording
\* of a key collision names the collision and no policy rejection.
DenialMsgs == UNION {IF ContainsAny(m, PermissionMarkers) THEN {m} ELSE {} : m \in Msgs}
DuplicateMsgs ==
    UNION {IF ContainsAny(m, DuplicateMarkers) /\ ~ContainsAny(m, PermissionMarkers)
           THEN {m} ELSE {} : m \in Msgs}
NotFoundMsg == <<"Object not found">>
DeniedMsg == <<"Unauthorized">>
FaultMsg == <<"timed out">>

----------------------------------------------------------------------------
(* The storage service, as the gateway's calls see it.  Each operator is   *)
(* the set of outcomes one call can have in the current state: a returned  *)
(* value, or an exception with its message.  With faults the call may also *)
(* fail for a reason of the transport, with any message.                   *)

Perms == {"insert", "select", "delete"}

\* The service_role key bypasses the bucket's policy; the anon key is held to it.
Allowed(cred, perm) == cred = "service" \/ perm \in policy

Return(v) == [ok |-> TRUE, value |-> v, msg |-> <<>>]
Raise(m) == [ok |-> FALSE, value |-> NoneV, msg |-> m]

Faults(faults, msgs) == IF faults THEN {Raise(m) : m \in msgs} ELSE {}

Stored == [ok |-> TRUE, why |-> "stored"]
Refused(why) == [ok |-> FALSE, why |-> why]

\* storage.from_(BUCKET).upload(key, data, options): the call stores the object
\* or raises; without an upsert option the service refuses to write over an
\* existing key.
StorageUpload(cred, key, options, st, faults) ==
    (IF ~Allowed(cred, "insert") THEN {Refused("denied")}
     ELSE IF st[key] # NoObj /\ options.upsert # "true" THEN {Refused("duplicate")}
     ELSE {Stored})
    \cup (IF faults THEN {Refused("fault")} ELSE {})

\* What str(e) may read when the upload call raises, by the reason it raised:
\* a failure in transit may read anything.
UploadErrorText ==
    [why \in {"denied", "duplicate", "fault"} |->
        CASE why = "denied" -> DenialMsgs
          [] why = "duplicate" -> DuplicateMsgs
          [] OTHER -> Msgs]

\* The bucket after an upload call with the given outcome.
AfterUpload(st, key, data, out) == IF out.ok THEN [st EXCEPT ![key] = data] ELSE st

\* storage.from_(BUCKET).download(key)
StorageDownload(cred, key, st, faults) ==
    (IF ~Allowed(cred, "select") THEN {Raise(DeniedMsg)}
     ELSE IF st[key] = NoObj THEN {Raise(NotFoundMsg)}
     ELSE {Return(st[key])})
    \cup Faults(faults, {FaultMsg})

\* storage.from_(BUCKET).remove([key]): answers with the list of the objects it
\* removed; a key that names nothing, or that the policy hides, is not in it.
StorageRemove(cred, key, st, faults) ==
    (IF st[key] # NoObj /\ Allowed(cred, "delete") THEN {Return(<<key>>)}
     ELSE IF st[key] # NoObj THEN {Return(<<>>), Raise(DeniedMsg)}
     ELSE {Return(<<>>)})
    \cup Faults(faults, {FaultMsg})

AfterRemove(st, key, out) ==
    IF out.ok /\ out.value = <<key>> THEN [st EXCEPT ![key] = NoObj] ELSE st

\* The URLs a signing result may carry.
SignedUrl(key, ttl) == <<"https://storage/sign/", BUCKET, key, "?expires=", ttl>>
PublicUrl(key) == <<"https://storage/public/", BUCKET, key, "">>

DictKeys == {"signedURL", "signed_url", "publicURL", "public_url"}

\* The result of create_signed_url: a bare string, or a mapping with a URL
\* under some of the known names (dict.get gives None for a name not present).
SignShapes(key, ttl) ==
    LET vals == {NoneV, EmptyStr, SignedUrl(key, ttl), PublicUrl(key)}
        dicts == UNION {IF Cardinality({k \in DictKeys : d[k] # NoneV}) <= MaxDictKeys
                        THEN {d} ELSE {} : d \in [DictKeys -> vals]}
    IN  {[isDict |-> FALSE, str |-> SignedUrl(key, ttl), dict |-> [k \in DictKeys |-> NoneV]]}
        \cup {[isDict |-> TRUE, str |-> NoneV, dict |-> d] : d \in dicts}

\* Every value a signing call made by the gateway may return.
SignReturns == [k \in Keys, t \in {EXPIRES_DEFAULT} |-> {Return(s) : s \in SignShapes(k, t)}]

\* Whether a signing call returns or raises.
SignStatus(cred, key, st, faults) ==
    (IF ~Allowed(cred, "select") THEN {Raise(DeniedMsg)}
     ELSE IF st[key] = NoObj THEN {Raise(NotFoundMsg)}
     ELSE {Return(NoneV)})
    \cup Faults(faults, {FaultMsg})

\* storage.from_(BUCKET).create_signed_url(key, ttl)
CreateSignedUrl(cred, key, ttl, st, faults) ==
    UNION {IF o.ok THEN SignReturns[key, ttl] ELSE {o} : o \in SignStatus(cred, key, st, faults)}

\* One entry of the log of calls a request issued.
Call(op, cred, key, ok) == [op |-> op, cred |-> cred, key |-> key, ok |-> ok]

----------------------------------------------------------------------------
(* The clients *)

\* supabase: the client made with SUPABASE_KEY
Supabase == "anon"

\* admin_client or supabase
AdminOrSupabase == IF serviceKey THEN "service" ELSE Supabase

----------------------------------------------------------------------------
(* Responses *)

NoDetail ==
    [kind |-> "absent", text |-> <<>>, error |-> "absent", message |-> "absent",
     action |-> "absent"]

\* HTTPException(status_code=500, detail=str(e))
TextDetail(msg) == [NoDetail EXCEPT !.kind = "text", !.text = msg]

PolicyAction ==
    "Provide SUPABASE_SERVICE_KEY (service_role) to the server or configure the bucket to allow public uploads."

\* The detail of the 403 of upload
PolicyDetail ==
    [kind |-> "struct", text |-> <<>>, error |-> "upload_failed",
     message |-> "Upload blocked by Supabase storage policy (403).",
     action |-> PolicyAction]

\* A response with nothing in it: every field of a body is absent.
Blank ==
    [status |-> 0, message |-> "absent", path |-> "absent", preview_url |-> Absent,
     download_url |-> Absent, data |-> Absent, media_type |-> "absent",
     filename |-> "absent", okStatus |-> "absent", result |-> Absent,
     detail |-> NoDetail]

HttpError(code, detail) == [Blank EXCEPT !.status = code, !.detail = detail]

\* What a handler did: its response and the storage calls it issued.
Done(r, cs) == [resp |-> r, calls |-> cs]

----------------------------------------------------------------------------
(* POST /upload *)

UploadFileOptionsUpsert == [upsert |-> "true"]

\* The options of the upload call: {"content-type": ct} sets the object's
\* metadata (not modelled) and leaves the upsert option out.
UploadFileOptions == [upsert |-> "absent"]

UploadClient == AdminOrSupabase
UploadUrlClient == AdminOrSupabase

\* The value taken from a signing result.
UploadExtract(signed) ==
    IF signed.isDict
    THEN Or4(signed.dict["signedURL"], signed.dict["signed_url"],
             signed.dict["publicURL"], signed.dict["public_url"])
    ELSE signed.str

\* try: signed = create_signed_url(...); preview_url = ... except: preview_url = None
\* over every outcome the signing call can have: the call issued, whether it
\* succeeded, and the preview_url the block ends with.
SignOutcome(cred, remote, ok, url) ==
    [ok |-> ok, url |-> url, call |-> Call("create_signed_url", cred, remote, ok)]

UploadExtracted ==
    [k \in Keys |-> {UploadExtract(r.value) : r \in SignReturns[k, EXPIRES_DEFAULT]}]

UploadPreview(remote, st, faults) ==
    UNION {IF o.ok THEN {SignOutcome(UploadUrlClient, remote, TRUE, u) :
                            u \in UploadExtracted[remote]}
           ELSE {SignOutcome(UploadUrlClient, remote, FALSE, NoneV)} :
              o \in SignStatus(UploadUrlClient, remote, st, faults)}

ErrorClassNoStatusCode(msg) ==
    IF Contains(msg, "row-level security") \/ Contains(msg, "Unauthorized")
       \/ Contains(msg, "403")
    THEN "permission"
    ELSE IF Contains(msg, "Duplicate") \/ Contains(msg, "already exists")
    THEN "duplicate"
    ELSE "other"

ErrorClassDuplicateFirst(msg) ==
    IF Contains(msg, "Duplicate") \/ Contains(msg, "already exists") \/ Contains(msg, "409")
    THEN "duplicate"
    ELSE IF Contains(msg, "row-level security") \/ Contains(msg, "Unauthorized")
            \/ Contains(msg, "403")
    THEN "permission"
    ELSE "other"

\* The two tests on str(e), in their order
ErrorClass(msg) ==
    IF Contains(msg, "row-level security") \/ Contains(msg, "Unauthorized")
       \/ Contains(msg, "403")
    THEN "permission"
    ELSE IF Contains(msg, "Duplicate") \/ Contains(msg, "already exists") \/ Contains(msg, "409")
    THEN "duplicate"
    ELSE "other"

UploadOnErrorRetrySign(remote, msg, pvs) ==
    CASE ErrorClass(msg) = "permission" -> {Done(HttpError(403, PolicyDetail), <<>>)}
      [] ErrorClass(msg) = "duplicate" ->
            {Done([Blank EXCEPT !.status = 200, !.message = "already_exists",
                                !.preview_url = pv.url],
                  IF pv.ok THEN <<pv.call>> ELSE <<pv.call, pv.call>>) :
                pv \in pvs}
      [] OTHER -> {Done(HttpError(500, TextDetail(msg)), <<>>)}

\* The except branch of the upload call: what the handler does with str(e);
\* pvs are the outcomes its signing block can have.
UploadOnError(remote, msg, pvs) ==
    CASE ErrorClass(msg) = "permission" -> {Done(HttpError(403, PolicyDetail), <<>>)}
      [] ErrorClass(msg) = "duplicate" ->
            {Done([Blank EXCEPT !.status = 200, !.message = "already_exists",
                                !.preview_url = pv.url],
                  <<pv.call>>) :
                pv \in pvs}
      [] OTHER -> {Done(HttpError(500, TextDetail(msg)), <<>>)}

\* The except branch reads str(e) through ErrorClass and, in the class "other",
\* as the detail: of the messages of one class but "other", one stands for all.
Wordings(msgs) ==
    UNION {IF \/ ErrorClass(m) = "other"
              \/ m = CHOOSE x \in msgs : ErrorClass(x) = ErrorClass(m)
           THEN {m} ELSE {} : m \in msgs}

UploadWordings == [why \in DOMAIN UploadErrorText |-> Wordings(UploadErrorText[why])]

\* The handler takes no `request` parameter and the module binds no such name:
\* str(request.base_url) raises NameError, which the except clause turns into "/".
RequestInScope == FALSE

UploadBase(baseUrl) == IF RequestInScope THEN baseUrl ELSE "/"

\* f"{base}download?path={remote}"
UploadDownloadUrl(base, remote) == <<base, "download?path=", remote>>

UploadOnSuccessNoCatch(remote, baseUrl, pvs) ==
    {IF pv.ok
     THEN Done([Blank EXCEPT !.status = 200, !.message = "uploaded", !.path = remote,
                             !.preview_url = pv.url,
                             !.download_url = UploadDownloadUrl(UploadBase(baseUrl), remote)],
               <<pv.call>>)
     ELSE Done(HttpError(500, TextDetail(<<"Internal Server Error">>)),
               <<pv.call>>) :
        pv \in pvs}

\* After a successful upload call: sign, build the download URL, answer.
UploadOnSuccess(remote, baseUrl, pvs) ==
    {Done([Blank EXCEPT !.status = 200, !.message = "uploaded", !.path = remote,
                        !.preview_url = pv.url,
                        !.download_url = UploadDownloadUrl(UploadBase(baseUrl), remote)],
          <<pv.call>>) :
        pv \in pvs}

\* The handler over every outcome of its calls: the response, the calls issued
\* and the bucket it leaves.
UploadHandler(remote, contents, baseUrl, faults) ==
    LET outs == StorageUpload(UploadClient, remote, UploadFileOptions, store, faults)
        first(out) == Call("upload", UploadClient, remote, out.ok)
        st(out) == AfterUpload(store, remote, contents, out)
        pvsStored == UploadPreview(remote, AfterUpload(store, remote, contents, Stored), faults)
        pvsRefused == UploadPreview(remote, store, faults)
        rest(out) == IF out.ok THEN UploadOnSuccess(remote, baseUrl, pvsStored)
                     ELSE UNION {UploadOnError(remote, msg, pvsRefused) :
                                    msg \in UploadWordings[out.why]}
    IN  UNION {{[resp |-> d.resp, calls |-> <<first(out)>> \o d.calls, store |-> st(out)] :
                    d \in rest(out)} : out \in outs}

----------------------------------------------------------------------------
(* GET /download *)

DownloadClient == Supabase

\* os.path.basename(path)
Basename(path) == IF path = "docs/r.txt" THEN "r.txt" ELSE path

\* mimetypes.guess_type(path)[0] or "application/octet-stream"
DownloadMediaType(path) ==
    IF GuessType(path) # "None" THEN GuessType(path) ELSE "application/octet-stream"

DownloadHandler(path, faults) ==
    {[resp |-> IF out.ok
               THEN [Blank EXCEPT !.status = 200, !.data = out.value,
                                  !.media_type = DownloadMediaType(path),
                                  !.filename = Basename(path)]
               ELSE HttpError(500, TextDetail(out.msg)),
      calls |-> <<Call("download", DownloadClient, path, out.ok)>>,
      store |-> store] :
        out \in StorageDownload(DownloadClient, path, store, faults)}

----------------------------------------------------------------------------
(* GET /preview and GET /download_link *)

PreviewClient == AdminOrSupabase

PreviewExtract(signed) ==
    IF signed.isDict
    THEN Or4(signed.dict["signedURL"], signed.dict["signed_url"],
             signed.dict["publicURL"], signed.dict["public_url"])
    ELSE signed.str

\* JSONResponse({"preview_url": preview_url})
PreviewBody(url) == [Blank EXCEPT !.status = 200, !.preview_url = url]

\* The response of preview to one outcome of its signing call
PreviewResponse(out) ==
    IF out.ok THEN PreviewBody(PreviewExtract(out.value))
    ELSE HttpError(500, TextDetail(out.msg))

PreviewExtracted ==
    [k \in Keys |-> {PreviewExtract(r.value) : r \in SignReturns[k, EXPIRES_DEFAULT]}]

\* The handler over every outcome of its call
PreviewHandler(path, faults) ==
    UNION {{[resp |-> r,
             calls |-> <<Call("create_signed_url", PreviewClient, path, o.ok)>>,
             store |-> store] :
               r \in IF o.ok THEN {PreviewBody(u) : u \in PreviewExtracted[path]}
                      ELSE {PreviewResponse(o)}} :
              o \in SignStatus(PreviewClient, path, store, faults)}

DownloadLinkClient == AdminOrSupabase

DownloadLinkExtractPublicFirst(signed) ==
    IF signed.isDict
    THEN Or4(signed.dict["publicURL"], signed.dict["public_url"],
             signed.dict["signedURL"], signed.dict["signed_url"])
    ELSE signed.str

DownloadLinkExtract(signed) ==
    IF signed.isDict
    THEN Or4(signed.dict["signedURL"], signed.dict["signed_url"],
             signed.dict["publicURL"], signed.dict["public_url"])
    ELSE signed.str

\* JSONResponse({"download_url": download_url})
DownloadLinkBody(url) == [Blank EXCEPT !.status = 200, !.download_url = url]

\* The response of download_link to one outcome of its signing call
DownloadLinkResponse(out) ==
    IF out.ok THEN DownloadLinkBody(DownloadLinkExtract(out.value))
    ELSE HttpError(500, TextDetail(out.msg))

DownloadLinkExtracted ==
    [k \in Keys |-> {DownloadLinkExtract(r.value) : r \in SignReturns[k, EXPIRES_DEFAULT]}]

\* The handler over every outcome of its call
DownloadLinkHandler(path, faults) ==
    UNION {{[resp |-> r,
             calls |-> <<Call("create_signed_url", DownloadLinkClient, path, o.ok)>>,
             store |-> store] :
               r \in IF o.ok THEN {DownloadLinkBody(u) : u \in DownloadLinkExtracted[path]}
                      ELSE {DownloadLinkResponse(o)}} :
              o \in SignStatus(DownloadLinkClient, path, store, faults)}

----------------------------------------------------------------------------
(* DELETE /delete *)

DeleteClient == Supabase

DeleteHandler(path, faults) ==
    {[resp |-> IF out.ok
               THEN [Blank EXCEPT !.status = 200, !.okStatus = "ok", !.result = out.value]
               ELSE HttpError(500, TextDetail(out.msg)),
      calls |-> <<Call("remove", DeleteClient, path, out.ok)>>,
      store |-> AfterRemove(store, path, out)] :
        out \in StorageRemove(DeleteClient, path, store, faults)}

----------------------------------------------------------------------------
(* The state machine *)

NoRequest == [op |-> "none", path |-> "absent", contents |-> Absent, baseUrl |-> "absent"]

Request(op, path) == [NoRequest EXCEPT !.op = op, !.path = path]

\* load_dotenv and the module body: the key pair is read once; the bucket and
\* its policy are whatever the service holds when the process starts.
Init ==
    /\ serviceKey \in BOOLEAN
    /\ policy \in SUBSET Perms
    /\ store \in [Keys -> Contents \cup {NoObj}]
    /\ req = NoRequest
    /\ resp = Blank
    /\ calls = <<>>
    /\ before = store

\* One request served: r is what the handler did.
Serve(request, r) ==
    /\ req' = request
    /\ resp' = r.resp
    /\ calls' = r.calls
    /\ store' = r.store
    /\ before' = store
    /\ UNCHANGED <<serviceKey, policy>>

Upload(faults) ==
    \E remote \in Keys, contents \in Contents, baseUrl \in BaseUrls :
        \E r \in UploadHandler(remote, contents, baseUrl, faults) :
            Serve([op |-> "upload", path |-> remote, contents |-> contents,
                   baseUrl |-> baseUrl], r)

Download(faults) ==
    \E path \in Keys : \E r \in DownloadHandler(path, faults) :
        Serve(Request("download", path), r)

Preview(faults) ==
    \E path \in Keys : \E r \in PreviewHandler(path, faults) :
        Serve(Request("preview", path), r)

DownloadLink(faults) ==
    \E path \in Keys : \E r \in DownloadLinkHandler(path, faults) :
        Serve(Request("download_link", path), r)

Delete(faults) ==
    \E path \in Keys : \E r \in DeleteHandler(path, faults) :
        Serve(Request("delete", path), r)

\* The service answers every call as its contract says.
Next ==
    \/ Upload(FALSE)
    \/ Download(FALSE)
    \/ Preview(FALSE)
    \/ DownloadLink(FALSE)
    \/ Delete(FALSE)

Spec == Init /\ [][Next]_vars

\* Any call may also fail in transit.
NextFault ==
    \/ Upload(TRUE)
    \/ Download(TRUE)
    \/ Preview(TRUE)
    \/ DownloadLink(TRUE)
    \/ Delete(TRUE)

SpecFault == Init /\ [][NextFault]_vars

----------------------------------------------------------------------------
(* Properties *)

SignFailed == \E i \in 1..Len(calls) : calls[i].op = "create_signed_url" /\ ~calls[i].ok

WriteFailed == \E i \in 1..Len(calls) : calls[i].op = "upload" /\ ~calls[i].ok

Uploaded == req.op = "upload" /\ resp.status = 200 /\ resp.message = "uploaded"

AlreadyExists == req.op = "upload" /\ resp.status = 200 /\ resp.message = "already_exists"

\* C1: a download of f that directly follows an upload of (f, b) answered
\* "uploaded" answers 200 with the body b.
C1_RoundTrip ==
    [][(Uploaded /\ req'.op = "download" /\ req'.path = req.path)
          => (resp'.status = 200 /\ resp'.data = req.contents)]_vars

\* C2: an upload of f while f is stored, by a gateway whose upload credential
\* may write (as it did when the first upload of f succeeded), answers 200
\* "already_exists"; no upload is answered with status 409.
C2_SecondUpload ==
    /\ (req.op = "upload" /\ before[req.path] # NoObj /\ Allowed(UploadClient, "insert"))
          => AlreadyExists
    /\ req.op = "upload" => resp.status # 409

C2_Witness ==
    /\ AlreadyExists
    /\ before[req.path] # NoObj
    /\ Truthy(resp.preview_url)

\* Every outcome the signing block of upload can have for a filename.
AnyPreview(remote) ==
    UNION {{SignOutcome(c, remote, FALSE, NoneV)}
              \cup {SignOutcome(c, remote, TRUE, u) : u \in UploadExtracted[remote]} :
                 c \in {"anon", "service"}}

\* What the except branch of upload answers to each message.
AnsweredByPriority ==
    \A remote \in Keys, m \in Msgs :
        \A d \in UploadOnError(remote, m, AnyPreview(remote)) :
            IF ContainsAny(m, PermissionMarkers)
            THEN d.resp.status = 403 /\ d.resp.detail = PolicyDetail
                 /\ d.resp.detail.action = PolicyAction
            ELSE IF ContainsAny(m, DuplicateMarkers)
            THEN d.resp.status = 200 /\ d.resp.message = "already_exists"
            ELSE d.resp.status = 500 /\ d.resp.detail = TextDetail(m)

\* C3: a failing write is answered by what its message contains, in this
\* order: a permission marker gives 403 with the structured body whose action
\* names the service key, also when a duplicate marker is there too; otherwise
\* a duplicate marker gives 200 "already_exists"; otherwise 500 with the
\* message as detail.  Every failing write gets exactly one of the three.
C3_ErrorPriority ==
    /\ AnsweredByPriority
    /\ (req.op = "upload" /\ WriteFailed) =>
          Cardinality({k \in 1..3 :
              \/ k = 1 /\ resp.status = 403 /\ resp.detail = PolicyDetail
              \/ k = 2 /\ resp.status = 200 /\ resp.message = "already_exists"
              \/ k = 3 /\ resp.status = 500 /\ resp.detail.kind = "text"}) = 1

\* The standard credential alone, the policy denies writing: 403 and the remedy.
C3_Witness ==
    /\ req.op = "upload" /\ WriteFailed
    /\ ~serviceKey /\ "insert" \notin policy
    /\ resp.status = 403 /\ resp.detail.action = PolicyAction

\* C4: a delete of a path that names no stored object is answered 500, never
\* 200 with status "ok".
C4_DeleteMissing ==
    (req.op = "delete" /\ before[req.path] = NoObj)
        => (resp.status = 500 /\ resp.okStatus # "ok")

\* Both handlers answer 200 with the same URL to every value a signing call returns.
SameUrlTaken ==
    \A k \in Keys : \A out \in SignReturns[k, EXPIRES_DEFAULT] :
        /\ PreviewResponse(out).status = 200
        /\ DownloadLinkResponse(out).status = 200
        /\ PreviewResponse(out).preview_url = DownloadLinkResponse(out).download_url

\* C5: preview and download_link of one path at one point in time have the same
\* outcome: they sign with the same client, answer 500 together, and take the
\* same URL from every signing result.
C5_SameSigning ==
    /\ PreviewClient = DownloadLinkClient
    /\ SameUrlTaken
    /\ \A path \in Keys :
          /\ \A o \in SignStatus(PreviewClient, path, store, TRUE) :
                ~o.ok => /\ PreviewResponse(o).status = 500
                         /\ DownloadLinkResponse(o) = PreviewResponse(o)
          /\ {<<r.resp.status, r.resp.preview_url, r.calls>> : r \in PreviewHandler(path, TRUE)}
                = {<<r.resp.status, r.resp.download_url, r.calls>> :
                      r \in DownloadLinkHandler(path, TRUE)}

\* A preview answered with a URL that download_link can answer in this state.
C5_Witness ==
    /\ req.op = "preview" /\ resp.status = 200 /\ Truthy(resp.preview_url)
    /\ \E r \in DownloadLinkHandler(req.path, FALSE) :
          r.resp.status = 200 /\ r.resp.download_url = resp.preview_url

\* C6: with the service key configured every upload, remove and signing call is
\* made with it; the download call is always made with the standard key.
C6_CredentialUse ==
    \A i \in 1..Len(calls) :
        /\ (serviceKey /\ calls[i].op \in {"upload", "remove", "create_signed_url"})
              => calls[i].cred = "service"
        /\ calls[i].op = "download" => calls[i].cred = "anon"

\* C7 as stated: a failed signing call leaves upload and preview answering 200
\* with a null or absent URL.
C7_SigningNeverAborts ==
    (req.op \in {"upload", "preview"} /\ SignFailed)
        => (resp.status = 200 /\ resp.preview_url \in {NoneV, Absent})

\* C7 amended: a failed signing call leaves upload answering 200, "uploaded" or
\* "already_exists", with preview_url null; preview answers it with 500 and the
\* error text.
C7_UploadSigningSoftFails ==
    /\ (req.op = "upload" /\ SignFailed)
          => (resp.status = 200 /\ resp.preview_url = NoneV
              /\ resp.message \in {"uploaded", "already_exists"})
    /\ (req.op = "preview" /\ SignFailed)
          => (resp.status = 500 /\ resp.detail.kind = "text")

C7_Witness == Uploaded /\ SignFailed /\ resp.preview_url = NoneV /\ store[req.path] = req.contents

\* C8: a successful upload of f answers path f and a download_url made of the
\* base URL of the request, "download?path=" and f.
C8_DownloadUrl ==
    Uploaded => (resp.path = req.path
                 /\ resp.download_url = <<req.baseUrl, "download?path=", req.path>>)

\* C9: a request issues at most one upload, download or remove call and at most
\* one signing call, each for the path of the request, and none after a call of
\* its kind has failed.
C9_NoRetry ==
    /\ Cardinality({i \in 1..Len(calls) : calls[i].op \in {"upload", "download", "remove"}}) <= 1
    /\ Cardinality({i \in 1..Len(calls) : calls[i].op = "create_signed_url"}) <= 1
    /\ \A i \in 1..Len(calls) : calls[i].key = req.path
    /\ \A i, j \in 1..Len(calls) : (i < j /\ ~calls[i].ok) => calls[j].op # calls[i].op

\* An upload refused as a duplicate whose one signing call failed.
C9_Witness ==
    /\ AlreadyExists /\ SignFailed
    /\ Len(calls) = 2

\* C10: an upload of f while f is stored, and an upload not answered "uploaded",
\* leave every object of the bucket as it was.
C10_NoOverwrite ==
    (req.op = "upload" /\ (before[req.path] # NoObj \/ resp.message # "uploaded"))
        => store = before

\* "already_exists" for bytes that differ from the stored ones, which stay.
C10_Witness ==
    /\ AlreadyExists
    /\ before[req.path] # NoObj /\ req.contents # before[req.path]
    /\ store[req.path] = before[req.path]

====
